---- MODULE Spec2Model ----
(***************************************************************************)
(* Pipeline graph compiler and run orchestrator of the Forge studio app.   *)
(*                                                                         *)
(*   studio-app/src/pipeline_graph.ts   sanitizePipelineGraph,             *)
(*                                      buildPipelineExecutionPlan         *)
(*   studio-app/src/pipeline_run.ts     runPipelineInBackground            *)
(*   studio-app/src/hooks/use_pipeline_graph_state.ts   runPipeline        *)
(*                                                                         *)
(* Node identifiers are strings, as in the source (PipelineNode.id:        *)
(* string).  The empty string is not an identifier: the source uses it as  *)
(* "no identifier" wherever it tests an identifier for truthiness.         *)
(***************************************************************************)
EXTENDS Naturals, Integers, Sequences, FiniteSets, TLC

(***************************************************************************)
(* Bounds of the model.                                                    *)
(***************************************************************************)
\* longest raw edge list handed to sanitizePipelineGraph
MaxEdges == 3
\* longest raw edge list handed to buildPipelineExecutionPlan
MaxPlanEdges == 3
\* most edges of a graph that is planned and then run
MaxRunEdges == 3
\* most polls of one run that return "running"
MaxRunningPolls == 2
\* longest node list handed to runPipelineInBackground directly
MaxRunNodes == 2

(***************************************************************************)
(* Input universes.                                                        *)
(***************************************************************************)
\* Identifiers in node-list order.  Three of them are chosen so that the
\* text "->" occurs inside an identifier; the type PipelineNode.id admits
\* any string and stored sessions are loaded without validation.
NodeIdOrder == <<"a", "->a", "a->", "b">>

NodeIdUniverse == {NodeIdOrder[i] : i \in DOMAIN NodeIdOrder}

\* PipelineNode: identity, type tag and title; the canvas position is read by
\* no operation modelled here and every node carries the default config of
\* its type (pipeline.ts:12-113).
NodeTypeOf(id) ==
  CASE id = "a"   -> "ingest"
    [] id = "->a" -> "filter"
    [] id = "a->" -> "train"
    [] OTHER      -> "export"

NodeTitleOf(id) ==
  CASE id = "a"   -> "Ingest"
    [] id = "->a" -> "Filter"
    [] id = "a->" -> "Train"
    [] OTHER      -> "Export Training"

NodeOf(id) == [id |-> id, type |-> NodeTypeOf(id), title |-> NodeTitleOf(id)]

\* PipelineEdge
EdgeOf(edgeId, source, target) ==
  [id |-> edgeId, source_node_id |-> source, target_node_id |-> target]

(***************************************************************************)
(* Small helpers standing for the JavaScript built-ins the source uses.    *)
(***************************************************************************)
\* Array.prototype.includes / Set.prototype.has on an insertion-ordered list
InSeq(x, seq) == \E i \in DOMAIN seq : seq[i] = x

SeqToSet(seq) == {seq[i] : i \in DOMAIN seq}

(***************************************************************************)
(* pipeline_graph.ts                                                       *)
(***************************************************************************)
\* new Set(nodes.map((node) => node.id))
NodeIdSet(nodes) == {nodes[i].id : i \in DOMAIN nodes}

\* `${edge.source_node_id}->${edge.target_node_id}`
EdgeKey(edge) == edge.source_node_id \o "->" \o edge.target_node_id

\* mutant: the self-loop test of lines 19-21 is missing
RECURSIVE SanitizeLoopKeepingSelfLoops(_, _, _, _)
SanitizeLoopKeepingSelfLoops(nodeIdSet, edges, uniqueKeys, cleanedEdges) ==
  IF edges = <<>> THEN cleanedEdges
  ELSE
    LET edge == Head(edges)
        rest == Tail(edges)
    IN  IF edge.source_node_id \notin nodeIdSet \/ edge.target_node_id \notin nodeIdSet
          THEN SanitizeLoopKeepingSelfLoops(nodeIdSet, rest, uniqueKeys, cleanedEdges)
        ELSE IF EdgeKey(edge) \in uniqueKeys
          THEN SanitizeLoopKeepingSelfLoops(nodeIdSet, rest, uniqueKeys, cleanedEdges)
        ELSE SanitizeLoopKeepingSelfLoops(nodeIdSet, rest, uniqueKeys \cup {EdgeKey(edge)},
                                          Append(cleanedEdges, edge))

\* mutant: kept edges are put in front of cleanedEdges (unshift for push)
RECURSIVE SanitizeLoopPrepending(_, _, _, _)
SanitizeLoopPrepending(nodeIdSet, edges, uniqueKeys, cleanedEdges) ==
  IF edges = <<>> THEN cleanedEdges
  ELSE
    LET edge == Head(edges)
        rest == Tail(edges)
    IN  IF edge.source_node_id \notin nodeIdSet \/ edge.target_node_id \notin nodeIdSet
          THEN SanitizeLoopPrepending(nodeIdSet, rest, uniqueKeys, cleanedEdges)
        ELSE IF edge.source_node_id = edge.target_node_id
          THEN SanitizeLoopPrepending(nodeIdSet, rest, uniqueKeys, cleanedEdges)
        ELSE IF EdgeKey(edge) \in uniqueKeys
          THEN SanitizeLoopPrepending(nodeIdSet, rest, uniqueKeys, cleanedEdges)
        ELSE SanitizeLoopPrepending(nodeIdSet, rest, uniqueKeys \cup {EdgeKey(edge)},
                                    <<edge>> \o cleanedEdges)

\* the for-loop of sanitizePipelineGraph over the remaining edges
RECURSIVE SanitizeLoop(_, _, _, _)
SanitizeLoop(nodeIdSet, edges, uniqueKeys, cleanedEdges) ==
  IF edges = <<>> THEN cleanedEdges
  ELSE
    LET edge == Head(edges)
        rest == Tail(edges)
    IN  IF edge.source_node_id \notin nodeIdSet \/ edge.target_node_id \notin nodeIdSet
          THEN SanitizeLoop(nodeIdSet, rest, uniqueKeys, cleanedEdges)
        ELSE IF edge.source_node_id = edge.target_node_id
          THEN SanitizeLoop(nodeIdSet, rest, uniqueKeys, cleanedEdges)
        ELSE IF EdgeKey(edge) \in uniqueKeys
          THEN SanitizeLoop(nodeIdSet, rest, uniqueKeys, cleanedEdges)
        ELSE SanitizeLoop(nodeIdSet, rest, uniqueKeys \cup {EdgeKey(edge)},
                          Append(cleanedEdges, edge))

sanitizePipelineGraph(nodes, edges) ==
  SanitizeLoop(NodeIdSet(nodes), edges, {}, <<>>)

\* buildOutgoingEdgeMap: source id -> targets in edge order; a source with no
\* outgoing edge has no entry
buildOutgoingEdgeMap(edges) ==
  [s \in {edges[i].source_node_id : i \in DOMAIN edges} |->
     LET own == SelectSeq(edges, LAMBDA e : e.source_node_id = s)
     IN  [i \in DOMAIN own |-> own[i].target_node_id]]

\* for (const nextNodeId of nextNodes) if (!visited.has(nextNodeId)) stack.push(...)
RECURSIVE PushUnvisited(_, _, _)
PushUnvisited(stack, nextNodes, visited) ==
  IF nextNodes = <<>> THEN stack
  ELSE IF InSeq(Head(nextNodes), visited)
         THEN PushUnvisited(stack, Tail(nextNodes), visited)
       ELSE PushUnvisited(Append(stack, Head(nextNodes)), Tail(nextNodes), visited)

\* the while-loop of collectReachableNodeIds; visited is a Set, kept here as
\* the list of its members in insertion order
RECURSIVE ReachLoop(_, _, _)
ReachLoop(outgoing, stack, visited) ==
  IF stack = <<>> THEN visited
  ELSE
    LET current == stack[Len(stack)]
        popped  == SubSeq(stack, 1, Len(stack) - 1)
    IN  IF current = "" \/ InSeq(current, visited)
          THEN ReachLoop(outgoing, popped, visited)
        ELSE IF current \notin DOMAIN outgoing
          THEN ReachLoop(outgoing, popped, Append(visited, current))
        ELSE ReachLoop(outgoing,
                       PushUnvisited(popped, outgoing[current], Append(visited, current)),
                       Append(visited, current))

\* mutant: the traversal follows edges in both directions
collectReachableIgnoringDirection(startNodeId, edges) ==
  ReachLoop(buildOutgoingEdgeMap(
              edges \o [i \in DOMAIN edges |->
                          [edges[i] EXCEPT !.source_node_id = edges[i].target_node_id,
                                           !.target_node_id = edges[i].source_node_id]]),
            <<startNodeId>>, <<>>)

collectReachableNodeIds(startNodeId, edges) ==
  ReachLoop(buildOutgoingEdgeMap(edges), <<startNodeId>>, <<>>)

\* buildStableOrderIndex: id -> position in nodes (0-based); forEach lets a
\* later node with the same id overwrite an earlier one
buildStableOrderIndex(nodes) ==
  [id \in NodeIdSet(nodes) |->
     (CHOOSE i \in DOMAIN nodes :
        nodes[i].id = id /\ \A j \in DOMAIN nodes : nodes[j].id = id => j <= i) - 1]

\* orderIndex.get(id) ?? 0
OrderIndexGet(orderIndex, id) ==
  IF id \in DOMAIN orderIndex THEN orderIndex[id] ELSE 0

\* mutant: the comparator orders by descending input position
stableSortDescending(leftNodeId, rightNodeId, orderIndex) ==
  OrderIndexGet(orderIndex, rightNodeId) - OrderIndexGet(orderIndex, leftNodeId)

\* the comparator stableSort: negative, zero or positive
stableSort(leftNodeId, rightNodeId, orderIndex) ==
  OrderIndexGet(orderIndex, leftNodeId) - OrderIndexGet(orderIndex, rightNodeId)

\* insert x into a list already ordered by the comparator, after every
\* element that does not compare greater (Array.prototype.sort is stable)
RECURSIVE InsertSorted(_, _, _)
InsertSorted(x, sorted, orderIndex) ==
  IF sorted = <<>> THEN <<x>>
  ELSE IF stableSort(Head(sorted), x, orderIndex) <= 0
         THEN <<Head(sorted)>> \o InsertSorted(x, Tail(sorted), orderIndex)
       ELSE <<x>> \o sorted

\* mutant: the list is left in insertion order (no sort)
KeepInsertionOrder(list, orderIndex) == list

\* list.sort((left, right) => stableSort(left, right, stableOrderIndex))
RECURSIVE SortByStableOrder(_, _)
SortByStableOrder(list, orderIndex) ==
  IF list = <<>> THEN <<>>
  ELSE InsertSorted(list[Len(list)],
                    SortByStableOrder(SubSeq(list, 1, Len(list) - 1), orderIndex),
                    orderIndex)

\* mutant: the increment of lines 93-96 is missing
InitialIndegreeUncounted(edges, reachableIds) ==
  [id \in SeqToSet(reachableIds) |-> 0]

\* lines 84-97: indegree of every reachable node over the edges whose two
\* endpoints are reachable
InitialIndegree(edges, reachableIds) ==
  [id \in SeqToSet(reachableIds) |->
     Cardinality({i \in DOMAIN edges :
        /\ InSeq(edges[i].source_node_id, reachableIds)
        /\ InSeq(edges[i].target_node_id, reachableIds)
        /\ edges[i].target_node_id = id})]

\* lines 84-97: adjacency of every reachable node, targets in edge order
InitialAdjacency(edges, reachableIds) ==
  [id \in SeqToSet(reachableIds) |->
     LET own == SelectSeq(edges, LAMBDA e :
                  /\ InSeq(e.source_node_id, reachableIds)
                  /\ InSeq(e.target_node_id, reachableIds)
                  /\ e.source_node_id = id)
     IN  [i \in DOMAIN own |-> own[i].target_node_id]]

\* the for-loop over the sorted targets of the node just emitted (113-120);
\* yields the updated indegree map and ready queue
RECURSIVE RelaxTargets(_, _, _, _)
RelaxTargets(targets, indegree, queue, orderIndex) ==
  IF targets = <<>> THEN [indegree |-> indegree, queue |-> queue]
  ELSE
    LET targetNodeId == Head(targets)
        nextIndegree == indegree[targetNodeId] - 1
        indegree2    == [indegree EXCEPT ![targetNodeId] = nextIndegree]
    IN  IF nextIndegree = 0
          THEN RelaxTargets(Tail(targets), indegree2,
                            SortByStableOrder(Append(queue, targetNodeId), orderIndex),
                            orderIndex)
        ELSE RelaxTargets(Tail(targets), indegree2, queue, orderIndex)

\* the while-loop over zeroIndegreeQueue (105-121)
RECURSIVE KahnLoop(_, _, _, _, _)
KahnLoop(queue, indegree, adjacency, sortedNodeIds, orderIndex) ==
  IF queue = <<>> THEN sortedNodeIds
  ELSE
    LET currentNodeId == Head(queue)
        shifted       == Tail(queue)
    IN  IF currentNodeId = ""
          THEN KahnLoop(shifted, indegree, adjacency, sortedNodeIds, orderIndex)
        ELSE
          LET targets == SortByStableOrder(adjacency[currentNodeId], orderIndex)
              relaxed == RelaxTargets(targets, indegree, shifted, orderIndex)
          IN  KahnLoop(relaxed.queue, relaxed.indegree, adjacency,
                       Append(sortedNodeIds, currentNodeId), orderIndex)

\* sortedNodeIds as computed by topologicalSortReachableNodes before its
\* length check
SortedNodeIds(nodes, edges, reachableIds) ==
  LET stableOrderIndex == buildStableOrderIndex(nodes)
      indegree  == InitialIndegree(edges, reachableIds)
      adjacency == InitialAdjacency(edges, reachableIds)
      zeroIndegreeQueue ==
        SortByStableOrder(SelectSeq(reachableIds, LAMBDA id : indegree[id] = 0),
                          stableOrderIndex)
  IN  KahnLoop(zeroIndegreeQueue, indegree, adjacency, <<>>, stableOrderIndex)

\* nodeMap.get(nodeId): the last node of the list carrying that id
NodeMapGet(nodes, nodeId) ==
  nodes[CHOOSE i \in DOMAIN nodes :
          nodes[i].id = nodeId /\ \A j \in DOMAIN nodes : nodes[j].id = nodeId => j <= i]

\* mutant: the length check of lines 123-128 is missing
topologicalSortWithoutLengthCheck(nodes, edges, reachableIds) ==
  LET sortedNodeIds == SortedNodeIds(nodes, edges, reachableIds)
      known == SelectSeq(sortedNodeIds, LAMBDA id : id \in NodeIdSet(nodes))
  IN  [error |-> "none",
       ordered_nodes |-> [i \in DOMAIN known |-> NodeMapGet(nodes, known[i])]]

\* Outcome of topologicalSortReachableNodes: the thrown cycle error, or the
\* node records of sortedNodeIds (ids unknown to nodeMap filtered out)
topologicalSortReachableNodes(nodes, edges, reachableIds) ==
  LET sortedNodeIds == SortedNodeIds(nodes, edges, reachableIds)
  IN  IF Len(sortedNodeIds) # Len(reachableIds)
        THEN [error |-> "CyclicGraph", ordered_nodes |-> <<>>]
      ELSE
        LET known == SelectSeq(sortedNodeIds, LAMBDA id : id \in NodeIdSet(nodes))
        IN  [error |-> "none",
             ordered_nodes |-> [i \in DOMAIN known |-> NodeMapGet(nodes, known[i])]]

\* mutant: the start-node test of lines 38-40 is missing
buildPlanWithoutStartCheck(nodes, edges, startNodeId) ==
  LET normalizedEdges == sanitizePipelineGraph(nodes, edges)
      reachableIds    == collectReachableNodeIds(startNodeId, normalizedEdges)
      sorted          == topologicalSortReachableNodes(nodes, normalizedEdges, reachableIds)
  IN  IF sorted.error # "none"
        THEN [error |-> sorted.error, ordered_nodes |-> <<>>,
              reachable_node_ids |-> <<>>]
      ELSE [error |-> "none", ordered_nodes |-> sorted.ordered_nodes,
            reachable_node_ids |-> reachableIds]

\* Outcome of buildPipelineExecutionPlan: error names the thrown error
\* ("none" when a plan is returned); a thrown error returns no plan
buildPipelineExecutionPlan(nodes, edges, startNodeId) ==
  IF startNodeId \notin NodeIdSet(nodes)
    THEN [error |-> "InvalidStartNode", ordered_nodes |-> <<>>,
          reachable_node_ids |-> <<>>]
  ELSE
    LET normalizedEdges == sanitizePipelineGraph(nodes, edges)
        reachableIds    == collectReachableNodeIds(startNodeId, normalizedEdges)
        sorted          == topologicalSortReachableNodes(nodes, normalizedEdges, reachableIds)
    IN  IF sorted.error # "none"
          THEN [error |-> sorted.error, ordered_nodes |-> <<>>,
                reachable_node_ids |-> <<>>]
        ELSE [error |-> "none", ordered_nodes |-> sorted.ordered_nodes,
              reachable_node_ids |-> reachableIds]

(***************************************************************************)
(* Texts and numbers of pipeline_run.ts.                                   *)
(*                                                                         *)
(* A string is modelled by its rows (String.prototype.split("\n")), a row  *)
(* by its tokens: a token is a piece of text that holds no line break, no  *)
(* "=" and no blank, except the tokens "=" and " " themselves and the      *)
(* fixed texts the source writes.  The empty string is the single empty    *)
(* row.  A number that the source divides is an exact fraction.            *)
(***************************************************************************)
EmptyText == << <<>> >>

RECURSIVE TrimStart(_)
\* String.prototype.trimStart on one row
TrimStart(row) ==
  IF row # <<>> /\ Head(row) = " " THEN TrimStart(Tail(row)) ELSE row

RECURSIVE TrimEnd(_)
\* String.prototype.trimEnd on one row
TrimEnd(row) ==
  IF row # <<>> /\ row[Len(row)] = " "
    THEN TrimEnd(SubSeq(row, 1, Len(row) - 1))
    ELSE row

\* String.prototype.trim on one row
TrimRow(row) == TrimEnd(TrimStart(row))

RECURSIVE DropBlankRowsAtStart(_)
DropBlankRowsAtStart(text) ==
  IF Len(text) > 1 /\ TrimRow(Head(text)) = <<>>
    THEN DropBlankRowsAtStart(Tail(text))
    ELSE text

RECURSIVE DropBlankRowsAtEnd(_)
DropBlankRowsAtEnd(text) ==
  IF Len(text) > 1 /\ TrimRow(text[Len(text)]) = <<>>
    THEN DropBlankRowsAtEnd(SubSeq(text, 1, Len(text) - 1))
    ELSE text

\* String.prototype.trim on a text of several rows: blanks and line breaks
\* go at both ends
TrimText(text) ==
  LET kept == DropBlankRowsAtEnd(DropBlankRowsAtStart(text))
  IN  IF Len(kept) = 1
        THEN <<TrimRow(kept[1])>>
        ELSE <<TrimStart(kept[1])>>
               \o SubSeq(kept, 2, Len(kept) - 1)
               \o <<TrimEnd(kept[Len(kept)])>>

RECURSIVE JoinWith(_, _)
\* Array.prototype.join(separator) of rows into one row
JoinWith(rows, separator) ==
  IF rows = <<>> THEN <<>>
  ELSE IF Len(rows) = 1 THEN rows[1]
  ELSE rows[1] \o <<separator>> \o JoinWith(Tail(rows), separator)

RECURSIVE JoinLines(_)
\* Array.prototype.join("\n") of texts into one text
JoinLines(texts) ==
  IF texts = <<>> THEN EmptyText
  ELSE IF Len(texts) = 1 THEN texts[1]
  ELSE texts[1] \o JoinLines(Tail(texts))

\* `${left}\n${right}` of two texts
AppendLine(left, right) == left \o right

RECURSIVE Gcd(_, _)
Gcd(m, n) == IF n = 0 THEN m ELSE Gcd(n, m % n)

\* the number num / den (den > 0), in lowest terms
Fraction(num, den) ==
  LET g == Gcd(IF num < 0 THEN -num ELSE num, den)
  IN  [num |-> num \div g, den |-> den \div g]

Whole(n) == [num |-> n, den |-> 1]

\* left < right on two numbers
Less(left, right) == left.num * right.den < right.num * left.den

(***************************************************************************)
(* pipeline.ts: what the runner reads of a node.                           *)
(***************************************************************************)
\* pipeline.ts:3-10, 229-233
estimateNodeDurationSeconds(nodeType) ==
  CASE nodeType = "ingest" -> 60
    [] nodeType = "filter" -> 30
    [] nodeType = "train"  -> 240
    [] nodeType = "export" -> 60
    [] nodeType = "chat"   -> 20
    [] nodeType = "custom" -> 30
    [] OTHER               -> 30

\* pipeline.ts:115-227  toForgeArgs for a node that carries the default
\* config of its type (pipeline.ts:12-113)
toForgeArgs(node) ==
  CASE node.type = "ingest" ->
         <<"ingest", "./datasets/my_source", "--dataset", "demo",
           "--quality-model", "perplexity">>
    [] node.type = "filter" ->
         <<"filter", "--dataset", "demo", "--language", "en",
           "--min-quality", "0.35">>
    [] node.type = "train" ->
         <<"train", "--dataset", "demo", "--output-dir", "./outputs/train/demo",
           "--epochs", "2", "--learning-rate", "0.001", "--batch-size", "16",
           "--max-token-length", "256", "--validation-split", "0.1",
           "--hidden-dim", "256", "--num-layers", "2", "--attention-heads", "8",
           "--mlp-hidden-dim", "1024", "--mlp-layers", "2", "--dropout", "0.1",
           "--position-embedding-type", "learned">>
    [] node.type = "export" ->
         <<"export-training", "--dataset", "demo", "--output-dir",
           "./outputs/export/demo", "--shard-size", "500", "--include-metadata">>
    [] node.type = "chat" ->
         <<"chat", "--dataset", "demo", "--model-path",
           "./outputs/train/demo/model.pt", "--prompt", "hello",
           "--max-new-tokens", "80", "--temperature", "0.8", "--top-k", "40",
           "--position-embedding-type", "learned">>
    [] OTHER -> <<"versions", "--dataset", "demo">>

\* args.join(" ")
CommandText(args) == JoinWith([i \in DOMAIN args |-> <<args[i]>>], " ")

(***************************************************************************)
(* pipeline_run.ts: the pure functions of the runner.                      *)
(***************************************************************************)
\* options.data_root
DataRoot == "./.forge"

\* string | null: a value that is null or a row
NullPath == [null |-> TRUE, value |-> <<>>]

PathOf(row) == [null |-> FALSE, value |-> row]

\* CommandTaskStatus (types.ts:46-58): the fields the runner reads, except
\* elapsed_seconds, which is copied into the snapshot and nothing else
StatusWith(status, progress_percent, remaining_seconds, stdout, stderr) ==
  [status            |-> status.status,
   exit_code         |-> status.exit_code,
   progress_percent  |-> progress_percent,
   remaining_seconds |-> remaining_seconds,
   stdout            |-> stdout,
   stderr            |-> stderr]

\* pipeline_run.ts:29-38  (the two elapsed fields read the clock and are
\* left out of every snapshot of the model)
DEFAULT_PIPELINE_PROGRESS_SNAPSHOT ==
  [is_running                     |-> FALSE,
   overall_percent                |-> Whole(0),
   pipeline_remaining_seconds     |-> 0,
   current_step_label             |-> <<"Idle">>,
   current_step_percent           |-> 0,
   current_step_remaining_seconds |-> 0]

\* mutant: the value is passed through
clampNothing(value, min, max) == value

\* pipeline_run.ts:190-198
clamp(value, min, max) ==
  IF Less(value, min) THEN min
  ELSE IF Less(max, value) THEN max
  ELSE value

\* mutant: the slice starts one step early
sumFromCurrentStep(estimates, start_index) ==
  LET RECURSIVE Sum(_)
      Sum(list) == IF list = <<>> THEN 0 ELSE Head(list) + Sum(Tail(list))
  IN  Sum(SubSeq(estimates, start_index, Len(estimates)))

\* pipeline_run.ts:175-180  (start_index counts from 0)
sum_remaining_estimate(estimates, start_index) ==
  LET RECURSIVE Sum(_)
      Sum(list) == IF list = <<>> THEN 0 ELSE Head(list) + Sum(Tail(list))
  IN  Sum(SubSeq(estimates, start_index + 1, Len(estimates)))

\* mutant: the reported percent is used whatever the status is
ReportedPercent(task_status) == task_status.progress_percent

\* pipeline_run.ts:126-127
CurrentStepPercent(task_status) ==
  IF task_status.status = "running" THEN task_status.progress_percent ELSE 100

\* mutant: the overall percent is the percent of the current step alone
OverallPercentOfStepAlone(node_index, node_count, current_step_percent) ==
  Fraction(current_step_percent, 1)

\* pipeline_run.ts:128-130  ((node_index + percent / 100) / node_count) * 100
OverallPercent(node_index, node_count, current_step_percent) ==
  Fraction(100 * node_index + current_step_percent, node_count)

\* pipeline_run.ts:141  `${node_index + 1}/${node_count}: ${node_title}`
StepLabel(node_index, node_count, node_title) ==
  <<ToString(node_index + 1), "/", ToString(node_count), ": ", node_title>>

\* pipeline_run.ts:122-146  the snapshot emit_progress hands to on_progress
emit_progress(options, task_status) ==
  LET current_step_percent == CurrentStepPercent(task_status)
      overall_percent ==
        OverallPercent(options.node_index, options.node_count, current_step_percent)
      future_remaining_seconds ==
        sum_remaining_estimate(options.estimated_step_seconds, options.node_index + 1)
  IN  [is_running                     |-> task_status.status = "running",
       overall_percent                |-> clamp(overall_percent, Whole(0), Whole(100)),
       pipeline_remaining_seconds     |->
         task_status.remaining_seconds + future_remaining_seconds,
       current_step_label             |->
         StepLabel(options.node_index, options.node_count, options.node_title),
       current_step_percent           |-> current_step_percent,
       current_step_remaining_seconds |-> task_status.remaining_seconds]

\* mutant: the final snapshot still says the pipeline is running
FinalSnapshotStillRunning ==
  [is_running                     |-> TRUE,
   overall_percent                |-> Whole(100),
   pipeline_remaining_seconds     |-> 0,
   current_step_label             |-> <<"Pipeline complete">>,
   current_step_percent           |-> 100,
   current_step_remaining_seconds |-> 0]

\* pipeline_run.ts:79-88
FinalSnapshot ==
  [is_running                     |-> FALSE,
   overall_percent                |-> Whole(100),
   pipeline_remaining_seconds     |-> 0,
   current_step_label             |-> <<"Pipeline complete">>,
   current_step_percent           |-> 100,
   current_step_remaining_seconds |-> 0]

\* pipeline_run.ts:154  `$ forge --data-root ${data_root} ${args.join(" ")}`
CommandLine(data_root, args) ==
  << <<"$ forge --data-root ", data_root, " ">> \o CommandText(args) >>

\* mutant: nothing is appended
appendNothing(log_chunks, data_root, args, task_status) == log_chunks

\* pipeline_run.ts:148-161
append_command_output(log_chunks, data_root, args, task_status) ==
  LET withCommand == Append(log_chunks, CommandLine(data_root, args))
      withStdout ==
        IF TrimText(task_status.stdout) # EmptyText
          THEN Append(withCommand, TrimText(task_status.stdout))
          ELSE withCommand
  IN  IF TrimText(task_status.stderr) # EmptyText
        THEN Append(withStdout, TrimText(task_status.stderr))
        ELSE withStdout

\* pipeline_run.ts:167  the test of Array.prototype.find
IsHistoryRow(row) ==
  \/ Len(row) >= 2 /\ row[1] = "history_path" /\ row[2] = "="
  \/ row # <<>> /\ row[Len(row)] = "history.json"

\* String.prototype.split("=")[1] of a row that includes "="
SecondPieceOfSplit(row) ==
  LET first == CHOOSE i \in DOMAIN row :
                 row[i] = "=" /\ \A j \in 1..(i - 1) : row[j] # "="
      rest  == SubSeq(row, first + 1, Len(row))
      stops == {i \in DOMAIN rest : rest[i] = "="}
  IN  IF stops = {}
        THEN rest
        ELSE SubSeq(rest, 1, (CHOOSE i \in stops : \A j \in stops : i <= j) - 1)

\* pipeline_run.ts:163-173
parse_history_path(stdout) ==
  LET found == {i \in DOMAIN stdout : IsHistoryRow(stdout[i])}
  IN  IF found = {}
        THEN NullPath
        ELSE LET line == stdout[CHOOSE i \in found : \A j \in found : i <= j]
             IN  IF InSeq("=", line)
                   THEN PathOf(TrimRow(SecondPieceOfSplit(line)))
                   ELSE PathOf(TrimRow(line))

\* pipeline_run.ts:72  parse_history_path(stdout) ?? history_path
NextHistoryPath(stdout, history_path) ==
  IF parse_history_path(stdout).null THEN history_path ELSE parse_history_path(stdout)

\* mutant: the exit code is not looked at
StepFailedStatusOnly(task_status) == task_status.status # "completed"

\* mutant: no terminal status counts as a failure
StepNeverFails(task_status) == FALSE

\* mutant: wait_for_task gives up after the first poll
GivesUpAtOnce(task_status) == FALSE

\* pipeline_run.ts:115-118  wait_for_task goes on to sleep and poll again
KeepsPolling(task_status) == task_status.status = "running"

\* pipeline_run.ts:73  the step counts as failed
StepFailed(task_status) ==
  task_status.status # "completed" \/ task_status.exit_code # 0

\* pipeline_run.ts:74  the message of the thrown Error
CommandFailedMessage(args) == <<"Command failed: ">> \o CommandText(args)

\* mutant: a run of no nodes reports the text of a run without output
EmptyRunResultWithText ==
  [console_output |-> << <<"Pipeline completed with no output.">> >>,
   history_path   |-> NullPath]

\* pipeline_run.ts:43-45
EmptyRunResult == [console_output |-> EmptyText, history_path |-> NullPath]

\* pipeline_run.ts:90-96
RunResult(log_chunks, history_path) ==
  [console_output |->
     IF Len(log_chunks) > 0
       THEN JoinLines(log_chunks) \o EmptyText
       ELSE << <<"Pipeline completed with no output.">> >>,
   history_path |-> history_path]

(***************************************************************************)
(* use_pipeline_graph_state.ts: the node-change effect.                    *)
(***************************************************************************)
\* mutant: the effect leaves startNodeId as it is
EffectKeepsStartNodeId(nodes, startNodeId) == startNodeId

\* use_pipeline_graph_state.ts:88-94  the startNodeId the effect leaves
\* ("" stands for null; both are falsy in the tests of the source)
EffectStartNodeId(nodes, startNodeId) ==
  IF startNodeId = "" /\ Len(nodes) > 0 THEN nodes[1].id
  ELSE IF startNodeId # "" /\ startNodeId \notin NodeIdSet(nodes) THEN ""
  ELSE startNodeId

(***************************************************************************)
(* State.                                                                  *)
(***************************************************************************)
VARIABLES
  nodes,          \* PipelineNode[]: the node list, in insertion order
  edges,          \* PipelineEdge[]: the edge list
  startNodeId,    \* the chosen start node id ("" stands for null)
  effectDeps,     \* the nodes and startNodeId the node-change effect last ran
                  \* with (ran is FALSE before its first run)
  cleanedEdges,   \* result of the latest sanitizePipelineGraph call
  recleanedEdges, \* result of sanitizePipelineGraph applied to cleanedEdges
  sanitizeCalls,  \* how many times sanitizePipelineGraph has been applied
  plan,           \* outcome of buildPipelineExecutionPlan ("not_run" before)
  hookState,      \* where the hook's runPipeline stands
  runPc,          \* where runPipelineInBackground stands
  runNodes,       \* options.nodes of the run
  runIndex,       \* the loop variable index of the run (0-based)
  tasks,          \* the external tasks submitted so far, each with the estimate
                  \* its submission returned and the status, exit code and
                  \* stdout the latest poll returned
  pollCount,      \* polls of the run that returned "running"
  estimated_step_seconds, \* the array estimated_step_seconds of the run
  history_path,   \* the local history_path of the run
  log_chunks,     \* the local log_chunks of the run
  task_status,    \* the reply of the latest getForgeCommandStatus call
  callTrace,      \* the calls the run has made, in order: startForgeCommand,
                  \* getForgeCommandStatus and on_progress
  delivered,      \* the snapshots handed to on_progress by the latest step
  runOutcome,     \* how the promise of runPipelineInBackground settled
  progress,       \* the hook's state progress (on_progress is setProgress)
  consoleOutput,  \* the hook's state consoleOutput
  historyPath     \* the hook's state historyPath

graphVars == <<nodes, edges, startNodeId, effectDeps>>

sanitizeVars == <<cleanedEdges, recleanedEdges, sanitizeCalls>>

runLocals == <<estimated_step_seconds, history_path, log_chunks, task_status,
               callTrace, delivered, runOutcome>>

hookVars == <<progress, consoleOutput, historyPath>>

runVars == <<hookState, runPc, runNodes, runIndex, tasks, pollCount,
             runLocals, hookVars>>

vars == <<nodes, edges, startNodeId, effectDeps, cleanedEdges, recleanedEdges, sanitizeCalls,
          plan, hookState, runPc, runNodes, runIndex, tasks, pollCount,
          estimated_step_seconds, history_path, log_chunks, task_status,
          callTrace, delivered, runOutcome, progress, consoleOutput, historyPath>>

\* no sanitizePipelineGraph call recorded yet
\* the node-change effect has not run
EffectNotRun == effectDeps = [ran |-> FALSE, nodes |-> <<>>, startNodeId |-> ""]

SanitizeIdle == cleanedEdges = <<>> /\ recleanedEdges = <<>> /\ sanitizeCalls = 0

\* the promise of runPipelineInBackground: pending, fulfilled with a
\* PipelineRunResult, or rejected with an Error that holds a message
PendingOutcome ==
  [kind |-> "pending", console_output |-> EmptyText, history_path |-> NullPath,
   message |-> <<>>]

Returned(result) ==
  [kind |-> "returned", console_output |-> result.console_output,
   history_path |-> result.history_path, message |-> <<>>]

\* mutant: the throw leaves the invocation without an outcome
ThrewNothing(message) == PendingOutcome

Threw(message) ==
  [kind |-> "threw", console_output |-> EmptyText, history_path |-> NullPath,
   message |-> message]

\* no status polled yet
NoStatus == [status |-> "none", exit_code |-> -1, progress_percent |-> 0,
             remaining_seconds |-> 0, stdout |-> EmptyText, stderr |-> EmptyText]

\* no run started; the hook's states hold the values of a fresh session
\* (session_state.ts:26-27, use_pipeline_graph_state.ts:77-84)
RunIdle ==
  /\ hookState = "idle"
  /\ runPc = "idle"
  /\ runNodes = <<>>
  /\ runIndex = 0
  /\ tasks = <<>>
  /\ pollCount = 0
  /\ estimated_step_seconds = <<>>
  /\ history_path = NullPath
  /\ log_chunks = <<>>
  /\ task_status = NoStatus
  /\ callTrace = <<>>
  /\ delivered = <<>>
  /\ runOutcome = PendingOutcome
  /\ progress = DEFAULT_PIPELINE_PROGRESS_SNAPSHOT
  /\ consoleOutput = EmptyText
  /\ historyPath = <<>>

NoPlan == [error |-> "not_run", ordered_nodes |-> <<>>, reachable_node_ids |-> <<>>]

\* all sequences over S of length at most n
SeqsUpTo(S, n) == UNION {[1..k -> S] : k \in 0..n}

\* a raw edge list from a list of (source, target) pairs; the edge id is the
\* position of the edge in the list
EdgeListOf(pairs) == [i \in DOMAIN pairs |-> EdgeOf(i, pairs[i][1], pairs[i][2])]

\* every (source, target) pair over NodeIdOrder, by source, then by target
CanonicalPairOrder ==
  [k \in 1..(Len(NodeIdOrder) * Len(NodeIdOrder)) |->
     <<NodeIdOrder[((k - 1) \div Len(NodeIdOrder)) + 1],
       NodeIdOrder[((k - 1) % Len(NodeIdOrder)) + 1]>>]

\* the edge list that lists a set of pairs once each, in canonical order
CanonicalRawEdges(pairs) == EdgeListOf(SelectSeq(CanonicalPairOrder, LAMBDA p : p \in pairs))

\* the node list holding the first k identifiers of an identifier order
NodePrefix(order, k) == [i \in 1..k |-> NodeOf(order[i])]

(***************************************************************************)
(* Planner specification: buildPipelineExecutionPlan applied to every      *)
(* graph of the bounded input space.                                       *)
(***************************************************************************)
PlanNodeLists == {NodePrefix(NodeIdOrder, k) : k \in {Len(NodeIdOrder) - 1, Len(NodeIdOrder)}}

\* pairs of two different identifiers; with the shorter node list the pairs
\* at the last identifier reference a missing node
ProperPairs == {p \in NodeIdUniverse \X NodeIdUniverse : p[1] # p[2]}

\* raw edge lists over the proper pairs and the self-loop at the start node
PlanEdgeLists(start) ==
  {EdgeListOf(pairs) :
     pairs \in SeqsUpTo(ProperPairs \cup {<<start, start>>}, MaxPlanEdges)}

InitPlan ==
  /\ nodes \in PlanNodeLists
  /\ startNodeId \in NodeIdUniverse
  /\ edges \in PlanEdgeLists(startNodeId)
  /\ plan = NoPlan
  /\ EffectNotRun
  /\ SanitizeIdle
  /\ RunIdle

BuildPlan ==
  /\ plan.error = "not_run"
  /\ plan' = buildPipelineExecutionPlan(nodes, edges, startNodeId)
  /\ UNCHANGED <<graphVars, sanitizeVars, runVars>>

NextPlan == BuildPlan

SpecPlan == InitPlan /\ [][NextPlan]_vars

(***************************************************************************)
(* Sanitizer specification: sanitizePipelineGraph applied to every raw     *)
(* graph of the bounded input space, and then to its own result.           *)
(***************************************************************************)
SanitizeIdOrder == SubSeq(NodeIdOrder, 1, 3)

SanitizeIdUniverse == {SanitizeIdOrder[i] : i \in DOMAIN SanitizeIdOrder}

\* the node lists over a subset of the identifiers, in identifier order
SanitizeNodeLists ==
  {[i \in DOMAIN SelectSeq(SanitizeIdOrder, LAMBDA id : id \in S) |->
      NodeOf(SelectSeq(SanitizeIdOrder, LAMBDA id : id \in S)[i])] :
   S \in SUBSET SanitizeIdUniverse}

SanitizeEdgeLists ==
  {EdgeListOf(pairs) : pairs \in SeqsUpTo(SanitizeIdUniverse \X SanitizeIdUniverse, MaxEdges)}

InitSanitize ==
  /\ nodes \in SanitizeNodeLists
  /\ edges \in SanitizeEdgeLists
  /\ startNodeId = ""
  /\ plan = NoPlan
  /\ EffectNotRun
  /\ SanitizeIdle
  /\ RunIdle

Sanitize ==
  /\ sanitizeCalls = 0
  /\ cleanedEdges' = sanitizePipelineGraph(nodes, edges)
  /\ sanitizeCalls' = 1
  /\ UNCHANGED <<graphVars, recleanedEdges, plan, runVars>>

SanitizeAgain ==
  /\ sanitizeCalls = 1
  /\ recleanedEdges' = sanitizePipelineGraph(nodes, cleanedEdges)
  /\ sanitizeCalls' = 2
  /\ UNCHANGED <<graphVars, cleanedEdges, plan, runVars>>

NextSanitize == Sanitize \/ SanitizeAgain

SpecSanitize == InitSanitize /\ [][NextSanitize]_vars

(***************************************************************************)
(* pipeline_run.ts and the hook's runPipeline: a graph is planned and its  *)
(* ordered nodes are run against the external task interface.              *)
(***************************************************************************)
\* What getForgeCommandStatus can return (CommandTaskStatus: status and
\* exit_code; exit_code null is written -1).
RunningStatus == [status |-> "running", exit_code |-> -1]

TerminalStatuses == [status : {"completed", "failed"}, exit_code : {0, 1}]

\* the graphs the hook can hold when Run is pressed: its edge state is kept
\* sanitized (use_pipeline_graph_state.ts:65-70, 87, 170)
RunRawEdgeLists ==
  {CanonicalRawEdges(S) :
     S \in {T \in SUBSET ProperPairs : Cardinality(T) <= MaxRunEdges}}

Init ==
  /\ nodes \in PlanNodeLists \cup {<<>>}
  /\ \E raw \in RunRawEdgeLists : edges = sanitizePipelineGraph(nodes, raw)
  /\ startNodeId \in NodeIdUniverse \cup {""}
  /\ plan = NoPlan
  /\ EffectNotRun
  /\ SanitizeIdle
  /\ RunIdle

\* the entries of callTrace
SubmitCall(step) ==
  [call |-> "submit", step |-> step, running |-> FALSE, label |-> <<>>]

PollCall(step, status) ==
  [call |-> "poll", step |-> step, running |-> status.status = "running",
   label |-> <<>>]

ProgressCall(step, snapshot) ==
  [call |-> "on_progress", step |-> step, running |-> snapshot.is_running,
   label |-> snapshot.current_step_label]

\* the variables the start of runPipelineInBackground writes
runEntryVars == <<runPc, runNodes, runIndex, estimated_step_seconds,
                  history_path, log_chunks, runOutcome>>

\* pipeline_run.ts:40-53  runPipelineInBackground up to its first await
EnterRun(option_nodes) ==
  /\ runNodes' = option_nodes
  /\ runIndex' = 0
  /\ history_path' = NullPath
  /\ log_chunks' = <<>>
  /\ IF Len(option_nodes) = 0
       THEN /\ runPc' = "completed"
            /\ runOutcome' = Returned(EmptyRunResult)
            /\ estimated_step_seconds' = <<>>
       ELSE /\ runPc' = "submit"
            /\ runOutcome' = PendingOutcome
            /\ estimated_step_seconds' =
                 [i \in DOMAIN option_nodes |->
                    estimateNodeDurationSeconds(option_nodes[i].type)]

\* use_pipeline_graph_state.ts:195-199
PreparingSnapshot ==
  [DEFAULT_PIPELINE_PROGRESS_SNAPSHOT EXCEPT
     !.is_running = TRUE, !.current_step_label = <<"Preparing pipeline">>]

\* pipeline_graph.ts:39, 124-127  the messages of the planner's errors
PlanErrorMessage(error, start) ==
  IF error = "InvalidStartNode"
    THEN <<"Start node '", start, "' does not exist in current pipeline.">>
    ELSE <<"Pipeline contains a cycle reachable from the selected start node. ",
           "Remove circular connections before running.">>

\* use_pipeline_graph_state.ts:221-223
\* `${current}\nPipeline failed: ${errorMessage}`.trim()
FailedConsole(current, errorMessage) ==
  TrimText(AppendLine(current, << <<"Pipeline failed: ">> \o errorMessage >>))

\* use_pipeline_graph_state.ts:213-215  if (result.history_path) setHistoryPath
HistoryPathAfter(current, result_path) ==
  IF ~result_path.null /\ result_path.value # <<>> THEN result_path.value ELSE current

\* use_pipeline_graph_state.ts:184-211  runPipeline up to the first await of
\* runPipelineInBackground (pipeline_run.ts:40-53)
RunPipeline ==
  /\ hookState = "idle"
  /\ IF Len(nodes) = 0
       THEN /\ hookState' = "no_nodes"
            /\ consoleOutput' = << <<"Add at least one pipeline node before running.">> >>
            /\ UNCHANGED <<plan, runEntryVars, progress, historyPath>>
     ELSE IF startNodeId = ""
       THEN /\ hookState' = "no_start"
            /\ consoleOutput' =
                 << <<"Choose a start node before running. ",
                      "Select a node and click 'Set As Start'.">> >>
            /\ UNCHANGED <<plan, runEntryVars, progress, historyPath>>
     ELSE
       LET executionPlan == buildPipelineExecutionPlan(nodes, edges, startNodeId)
           started == << <<"Pipeline started...">> >>
       IN  /\ plan' = executionPlan
           /\ IF executionPlan.error # "none"
                THEN /\ hookState' = "failed"
                     /\ progress' = [PreparingSnapshot EXCEPT !.is_running = FALSE]
                     /\ consoleOutput' =
                          FailedConsole(started,
                                        PlanErrorMessage(executionPlan.error, startNodeId))
                     /\ UNCHANGED <<runEntryVars, historyPath>>
              ELSE /\ EnterRun(executionPlan.ordered_nodes)
                   /\ progress' = PreparingSnapshot
                   /\ UNCHANGED historyPath
                   /\ IF Len(executionPlan.ordered_nodes) = 0
                        THEN /\ hookState' = "completed"
                             /\ consoleOutput' = EmptyRunResult.console_output
                        ELSE /\ hookState' = "running"
                             /\ consoleOutput' = started
  /\ UNCHANGED <<graphVars, sanitizeVars, tasks, pollCount, task_status,
                 callTrace, delivered>>

\* pipeline_run.ts:40-53  runPipelineInBackground called with a node list of
\* the caller's own, without the hook
runPipelineInBackground ==
  /\ hookState = "idle"
  /\ runPc = "idle"
  /\ hookState' = "bypassed"
  /\ EnterRun(nodes)
  /\ UNCHANGED <<graphVars, sanitizeVars, plan, tasks, pollCount, task_status,
                 callTrace, delivered, hookVars>>

\* pipeline_run.ts:55-61  startForgeCommand for options.nodes[index] and the
\* estimate it returns
SubmitStepFrom(starts) ==
  /\ runPc = "submit"
  /\ \E task_start \in starts :
       /\ estimated_step_seconds' =
            [estimated_step_seconds EXCEPT
               ![runIndex + 1] =
                 IF @ >= task_start.estimated_total_seconds
                   THEN @ ELSE task_start.estimated_total_seconds]
       /\ tasks' = Append(tasks,
                          [node_id   |-> runNodes[runIndex + 1].id,
                           estimated_total_seconds |-> task_start.estimated_total_seconds,
                           status    |-> RunningStatus.status,
                           exit_code |-> RunningStatus.exit_code,
                           stdout    |-> EmptyText])
  /\ callTrace' = Append(callTrace, SubmitCall(runIndex))
  /\ delivered' = <<>>
  /\ runPc' = "poll"
  /\ UNCHANGED <<graphVars, sanitizeVars, plan, hookState, runNodes, runIndex,
                 pollCount, history_path, log_chunks, task_status, runOutcome,
                 hookVars>>

\* pipeline_run.ts:112-118, 71-96  one getForgeCommandStatus reply: the task
\* still runs, or it ended and the loop goes on to the next node, returns
\* after the last one, or throws on a failed step; the hook, when it made
\* the call, takes the result or catches the error
\* (use_pipeline_graph_state.ts:212-225)
PollStepFrom(replies) ==
  /\ runPc = "poll"
  /\ \E reply \in replies :
       LET node     == runNodes[runIndex + 1]
           args     == toForgeArgs(node)
           options  == [node_title             |-> node.title,
                        node_index             |-> runIndex,
                        node_count             |-> Len(runNodes),
                        estimated_step_seconds |-> estimated_step_seconds]
           snapshot == emit_progress(options, reply)
           polled   == callTrace \o <<PollCall(runIndex, reply),
                                      ProgressCall(runIndex, snapshot)>>
           path     == NextHistoryPath(reply.stdout, history_path)
       IN
       \* the texts, each computed once
       \E chunks \in {append_command_output(log_chunks, DataRoot, args, reply)} :
       \E result \in {RunResult(chunks, path)} :
       \E message \in {CommandFailedMessage(args)} :
       /\ KeepsPolling(reply) => pollCount < MaxRunningPolls
       /\ task_status' = reply
       /\ tasks' = [tasks EXCEPT ![Len(tasks)] =
                      [@ EXCEPT !.status = reply.status,
                                !.exit_code = reply.exit_code,
                                !.stdout = reply.stdout]]
       /\ IF KeepsPolling(reply)
            THEN /\ pollCount' = pollCount + 1
                 /\ callTrace' = polled
                 /\ delivered' = <<snapshot>>
                 /\ progress' = snapshot
                 /\ UNCHANGED <<hookState, runPc, runIndex, history_path, log_chunks,
                                runOutcome, consoleOutput, historyPath>>
          ELSE
            /\ log_chunks' = chunks
            /\ history_path' = path
            /\ IF StepFailed(reply)
                 THEN /\ runPc' = "failed"
                      /\ runOutcome' = Threw(message)
                      /\ callTrace' = polled
                      /\ delivered' = <<snapshot>>
                      /\ IF hookState = "running"
                           THEN /\ hookState' = "failed"
                                /\ progress' = [snapshot EXCEPT !.is_running = FALSE]
                                /\ consoleOutput' = FailedConsole(consoleOutput, message)
                           ELSE /\ progress' = snapshot
                                /\ UNCHANGED <<hookState, consoleOutput>>
                      /\ UNCHANGED <<runIndex, pollCount, historyPath>>
               ELSE IF runIndex + 1 < Len(runNodes)
                 THEN /\ runIndex' = runIndex + 1
                      /\ runPc' = "submit"
                      /\ callTrace' = polled
                      /\ delivered' = <<snapshot>>
                      /\ progress' = snapshot
                      /\ UNCHANGED <<hookState, pollCount, runOutcome, consoleOutput,
                                     historyPath>>
               ELSE /\ runPc' = "completed"
                    /\ runOutcome' = Returned(result)
                    /\ callTrace' =
                         Append(polled, ProgressCall(Len(runNodes), FinalSnapshot))
                    /\ delivered' = <<snapshot, FinalSnapshot>>
                    /\ progress' = FinalSnapshot
                    /\ IF hookState = "running"
                         THEN /\ hookState' = "completed"
                              /\ consoleOutput' = result.console_output
                              /\ historyPath' =
                                   HistoryPathAfter(historyPath, result.history_path)
                         ELSE UNCHANGED <<hookState, consoleOutput, historyPath>>
                    /\ UNCHANGED <<runIndex, pollCount>>
  /\ UNCHANGED <<graphVars, sanitizeVars, plan, runNodes, estimated_step_seconds>>

\* the replies of the task interface when only the order of the steps and
\* their success matter: no output, no progress data
PlainStarts == {[estimated_total_seconds |-> 0]}

PlainReplies ==
  {StatusWith(s, 0, 0, EmptyText, EmptyText) : s \in {RunningStatus} \cup TerminalStatuses}

SubmitStep == SubmitStepFrom(PlainStarts)

PollStep == PollStepFrom(PlainReplies)

Next == RunPipeline \/ SubmitStep \/ PollStep

Spec == Init /\ [][Next]_vars

(***************************************************************************)
(* Runner specification: runPipelineInBackground on node lists of up to    *)
(* MaxRunNodes nodes, called by the hook and called directly, against a    *)
(* task interface that reports output, estimates and progress.             *)
(***************************************************************************)
\* stdout texts: no output; a key=value marker after an ordinary row; a
\* row that ends with the history-file suffix; a marker whose value holds
\* an "="
StdoutMarker ==
  << <<"epoch", " ", "1">>, <<"history_path", "=", "/runs/a/", "history.json">> >>

StdoutSuffix == << <<" ", "/runs/b/", "history.json">> >>

StdoutMarkerWithEquals ==
  << <<"history_path", "=", "/runs/lr", "=", "1/", "history.json">> >>

StderrText == << <<"Traceback:", " ", "boom">>, <<>> >>

\* startForgeCommand: an estimate below and one above every static default
TaskStarts == {[estimated_total_seconds |-> s] : s \in {0, 500}}

\* progress reports below 0 and above 100
RunningReplies ==
  {StatusWith(RunningStatus, -50, 7, <<<<"epoch", " ", "1">>>>, EmptyText),
   StatusWith(RunningStatus, 150, 2, EmptyText, EmptyText)}

CompletedStatus == [status |-> "completed", exit_code |-> 0]

SuccessReplies ==
  {StatusWith(CompletedStatus, 40, 0, EmptyText, EmptyText),
   StatusWith(CompletedStatus, 100, 0, StdoutMarker, EmptyText),
   StatusWith(CompletedStatus, 100, 1, StdoutSuffix, StderrText),
   StatusWith(CompletedStatus, 100, 0, StdoutMarkerWithEquals, EmptyText)}

FailureReplies ==
  {StatusWith(s, 40, 3, StdoutMarker, StderrText) :
     s \in TerminalStatuses \ {CompletedStatus}}

TaskReplies == RunningReplies \cup SuccessReplies \cup FailureReplies

\* the chain first -> second -> ... over a node list
ChainEdges(list) ==
  EdgeListOf([i \in 1..(Len(list) - 1) |-> <<list[i].id, list[i + 1].id>>])

InitRun ==
  /\ \E k \in 0..MaxRunNodes : nodes = NodePrefix(NodeIdOrder, k)
  /\ edges = sanitizePipelineGraph(nodes, ChainEdges(nodes))
  /\ startNodeId = IF nodes = <<>> THEN "" ELSE nodes[1].id
  /\ plan = NoPlan
  /\ EffectNotRun
  /\ SanitizeIdle
  /\ RunIdle

SubmitRunStep == SubmitStepFrom(TaskStarts)

PollRunStep == PollStepFrom(TaskReplies)

NextRun == RunPipeline \/ runPipelineInBackground \/ SubmitRunStep \/ PollRunStep

SpecRun == InitRun /\ [][NextRun]_vars

(***************************************************************************)
(* Graph notions the claims are stated in, defined independently of the    *)
(* planner's traversal and ordering code.                                  *)
(***************************************************************************)
\* least set containing S and closed under the (source, target) pairs
RECURSIVE ForwardClosure(_, _)
ForwardClosure(S, pairs) ==
  LET next == S \cup {p[2] : p \in {q \in pairs : q[1] \in S}}
  IN  IF next = S THEN S ELSE ForwardClosure(next, pairs)

PairOf(edge) == <<edge.source_node_id, edge.target_node_id>>

PairsOf(edgeList) == {PairOf(edgeList[i]) : i \in DOMAIN edgeList}

\* a directed cycle among the given pairs
HasCycle(pairs) ==
  \E p \in pairs : p[1] \in ForwardClosure({p[2]}, pairs)

\* The current graph as the claims see it:
\*   sanitized       the sanitized edges, as (source, target) pairs
\*   reachable       nodes with a directed path of length >= 0 from the start
\*   reachablePairs  sanitized edges with both endpoints reachable
GraphFacts ==
  LET sanitized == PairsOf(sanitizePipelineGraph(nodes, edges))
      reachable == ForwardClosure({startNodeId}, sanitized)
  IN  [sanitized      |-> sanitized,
       reachable      |-> reachable,
       reachablePairs |-> {p \in sanitized : p[1] \in reachable /\ p[2] \in reachable}]

OrderedIds == [i \in DOMAIN plan.ordered_nodes |-> plan.ordered_nodes[i].id]

PositionIn(seq, x) == CHOOSE i \in DOMAIN seq : seq[i] = x

NoDuplicates(seq) == \A i, j \in DOMAIN seq : i # j => seq[i] # seq[j]

PlanBuilt == plan.error # "not_run"

PlanIsEmpty == plan.ordered_nodes = <<>> /\ plan.reachable_node_ids = <<>>

(***************************************************************************)
(* Claims about buildPipelineExecutionPlan (checked under SpecPlan).       *)
(***************************************************************************)
\* C2: whenever buildPipelineExecutionPlan succeeds, ordered_nodes is a
\* topological order of the reachable subgraph: it holds every reachable
\* node exactly once and no other node, each a node of the node list, and
\* every sanitized edge between reachable nodes runs from an earlier to a
\* later position.
OrderedNodesAreTopologicalOrder ==
  plan.error = "none" =>
    LET g   == GraphFacts
        ids == OrderedIds
    IN  /\ SeqToSet(ids) = g.reachable
        /\ NoDuplicates(ids)
        /\ \A i \in DOMAIN plan.ordered_nodes : InSeq(plan.ordered_nodes[i], nodes)
        /\ \A p \in g.reachablePairs : PositionIn(ids, p[1]) < PositionIn(ids, p[2])

\* a plan of at least three nodes over at least three reachable edges, with
\* a node of the list left out as unreachable
WitnessTopologicalOrder ==
  /\ plan.error = "none"
  /\ Len(plan.ordered_nodes) >= 3
  /\ Cardinality(GraphFacts.reachablePairs) >= 3
  /\ NodeIdSet(nodes) \ GraphFacts.reachable # {}

ReverseSeq(seq) == [i \in DOMAIN seq |-> seq[Len(seq) + 1 - i]]

SameOutcome(p, q) == p.error = q.error /\ p.ordered_nodes = q.ordered_nodes

\* C3: the outcome of buildPipelineExecutionPlan (failure, or ordered_nodes)
\* depends on the edge list only through the set of sanitized (source,
\* target) pairs: it equals the outcome for that same set listed once each
\* in canonical order and in the reverse of it, both of which sanitize to
\* that set.  Two edge lists with the same sanitized set therefore get the
\* same outcome, whatever their order.
PlanIndependentOfEdgeOrder ==
  PlanBuilt =>
    LET sanitized == PairsOf(sanitizePipelineGraph(nodes, edges))
        canonical == CanonicalRawEdges(sanitized)
        reversed  == ReverseSeq(canonical)
    IN  /\ PairsOf(sanitizePipelineGraph(nodes, canonical)) = sanitized
        /\ PairsOf(sanitizePipelineGraph(nodes, reversed)) = sanitized
        /\ SameOutcome(plan, buildPipelineExecutionPlan(nodes, canonical, startNodeId))
        /\ SameOutcome(plan, buildPipelineExecutionPlan(nodes, reversed, startNodeId))

\* a successful plan of a start node with two successors, built from an
\* edge list that has dropped edges and is not in canonical order
WitnessEdgeOrder ==
  /\ plan.error = "none"
  /\ Len(plan.ordered_nodes) >= 3
  /\ Cardinality({p \in GraphFacts.reachablePairs : p[1] = startNodeId}) >= 2
  /\ Len(edges) > Cardinality(GraphFacts.sanitized)
  /\ LET kept == sanitizePipelineGraph(nodes, edges)
     IN  [i \in DOMAIN kept |-> PairOf(kept[i])]
           # [i \in DOMAIN kept |-> PairOf(CanonicalRawEdges(PairsOf(kept))[i])]

\* C4: with a valid start node, buildPipelineExecutionPlan fails with the
\* cyclic-graph error exactly when the sanitized subgraph induced by the
\* reachable nodes has a directed cycle, and then returns no plan.
CycleRejectionIsExact ==
  (PlanBuilt /\ startNodeId \in NodeIdSet(nodes)) =>
    /\ (plan.error = "CyclicGraph") <=> HasCycle(GraphFacts.reachablePairs)
    /\ plan.error = "CyclicGraph" => PlanIsEmpty

\* a reachable mutual pair A->B, B->A, rejected
WitnessMutualPairRejected ==
  /\ plan.error = "CyclicGraph"
  /\ \E p \in GraphFacts.reachablePairs : <<p[2], p[1]>> \in GraphFacts.reachablePairs

\* C5: reachable_node_ids is exactly the set of nodes with a directed path
\* from the start node over the sanitized edges; a node without such a path
\* is in neither reachable_node_ids nor ordered_nodes, even when it has an
\* edge into a reachable node.
ReachableIdsAreExact ==
  plan.error = "none" =>
    LET g == GraphFacts
    IN  /\ SeqToSet(plan.reachable_node_ids) = g.reachable
        /\ NoDuplicates(plan.reachable_node_ids)
        /\ \A n \in NodeIdSet(nodes) \ g.reachable :
             ~InSeq(n, plan.reachable_node_ids) /\ ~InSeq(n, OrderedIds)

\* a successful plan where an unreachable node has a sanitized edge into a
\* reachable node other than the start
WitnessUnreachableFeeder ==
  /\ plan.error = "none"
  /\ LET g == GraphFacts
     IN  \E p \in g.sanitized :
           p[1] \notin g.reachable /\ p[2] \in g.reachable /\ p[2] # startNodeId

\* an edge joining two different nodes of the node list
IsValidEdge(edge) ==
  /\ edge.source_node_id \in NodeIdSet(nodes)
  /\ edge.target_node_id \in NodeIdSet(nodes)
  /\ edge.source_node_id # edge.target_node_id

\* the (source, target) pairs of the valid edges of the raw edge list
ValidPairs == {PairOf(edges[i]) : i \in {j \in DOMAIN edges : IsValidEdge(edges[j])}}

\* the raw edge list without the edges whose source has no directed path
\* from the start node
WithoutUnreachableSources ==
  LET reachable == ForwardClosure({startNodeId}, ValidPairs)
  IN  SelectSeq(edges, LAMBDA e : e.source_node_id \in reachable)

\* C6: the edges whose source is not reachable from the start node have no
\* effect on planning: the outcome for the edge list equals the outcome for
\* the list with all such edges removed.
UnreachableSourceEdgesHaveNoEffect ==
  (PlanBuilt /\ startNodeId \in NodeIdSet(nodes)) =>
    SameOutcome(plan,
      buildPipelineExecutionPlan(nodes, WithoutUnreachableSources, startNodeId))

\* C7: when start_node_id names no node of the node list, the call fails
\* with the invalid-start-node error for every edge list and returns no
\* plan.
InvalidStartAlwaysRejected ==
  (PlanBuilt /\ startNodeId \notin NodeIdSet(nodes)) =>
    plan.error = "InvalidStartNode" /\ PlanIsEmpty

\* an unknown start node together with an edge list holding a cycle
WitnessInvalidStartWithCycle ==
  /\ PlanBuilt
  /\ startNodeId \notin NodeIdSet(nodes)
  /\ HasCycle(GraphFacts.sanitized)

(***************************************************************************)
(* Claims about sanitizePipelineGraph (checked under SpecSanitize).        *)
(***************************************************************************)
\* C8: every edge returned by sanitizePipelineGraph is an input edge whose
\* source and target are in the node set and differ; every input edge that
\* violates either condition is absent from the result; the call is defined
\* on every input.
SanitizeKeepsOnlyValidEdges ==
  /\ sanitizeCalls = 0 => ENABLED Sanitize
  /\ sanitizeCalls >= 1 =>
       /\ \A i \in DOMAIN cleanedEdges :
            InSeq(cleanedEdges[i], edges) /\ IsValidEdge(cleanedEdges[i])
       /\ \A i \in DOMAIN edges :
            ~IsValidEdge(edges[i]) => ~InSeq(edges[i], cleanedEdges)

\* an input with a self-loop, an edge to a missing node and a valid edge
WitnessInvalidEdgesDropped ==
  /\ sanitizeCalls >= 1
  /\ Len(cleanedEdges) >= 1
  /\ \E i \in DOMAIN edges :
       edges[i].source_node_id = edges[i].target_node_id
       /\ edges[i].source_node_id \in NodeIdSet(nodes)
  /\ \E i \in DOMAIN edges :
       edges[i].source_node_id # edges[i].target_node_id
       /\ edges[i].target_node_id \notin NodeIdSet(nodes)

\* positions of the valid input edges that no earlier valid input edge
\* equals in (source, target)
FirstOfPairPositions ==
  {i \in DOMAIN edges :
     /\ IsValidEdge(edges[i])
     /\ ~\E j \in DOMAIN edges :
           j < i /\ IsValidEdge(edges[j]) /\ PairOf(edges[j]) = PairOf(edges[i])}

\* C9: sanitizePipelineGraph deduplicates by the ordered pair (source,
\* target): the result is the input restricted to the first valid edge of
\* each pair, in input order, so two valid edges with different pairs are
\* both kept whatever the node identifiers are.
SanitizeDeduplicatesByPair ==
  sanitizeCalls >= 1 =>
    cleanedEdges = SelectSeq(edges, LAMBDA e : e.id \in FirstOfPairPositions)

\* C10: sanitizePipelineGraph is idempotent: applied to its own result (same
\* node list) it returns that result, as a sequence of edges.
SanitizeIsIdempotent ==
  sanitizeCalls = 2 => recleanedEdges = cleanedEdges

\* a second application to a result of two or more edges out of a longer
\* raw list
WitnessResanitized ==
  /\ sanitizeCalls = 2
  /\ Len(cleanedEdges) >= 2
  /\ Len(edges) > Len(cleanedEdges)

(***************************************************************************)
(* Claims about planning followed by running (checked under Spec).         *)
(***************************************************************************)
\* C1: for every sanitized edge A->B between nodes reachable from the start
\* node, whenever a task of B has been submitted, a task of A was submitted
\* before it and has ended with status "completed" and exit code 0.
DependenciesCompleteBeforeSubmit ==
  \A j \in DOMAIN tasks :
    \A p \in GraphFacts.reachablePairs :
      p[2] = tasks[j].node_id =>
        \E i \in 1..(j - 1) :
          /\ tasks[i].node_id = p[1]
          /\ tasks[i].status = "completed"
          /\ tasks[i].exit_code = 0

\* a run that has submitted the task of a node with two reachable
\* predecessors, after polls that found an earlier task still running
WitnessDependentSubmitted ==
  /\ Len(tasks) >= 3
  /\ pollCount >= 1
  /\ Cardinality({p \in GraphFacts.reachablePairs : p[2] = tasks[Len(tasks)].node_id}) >= 2

(***************************************************************************)
(* Claims about runPipelineInBackground (checked under SpecRun).           *)
(***************************************************************************)
\* positions of callTrace that hold a call of one kind
CallsOf(kind) == {i \in DOMAIN callTrace : callTrace[i].call = kind}

\* the step of the latest getForgeCommandStatus call
LastPolledStep ==
  callTrace[CHOOSE i \in CallsOf("poll") : \A j \in CallsOf("poll") : j <= i].step

\* a terminal status that is not a success
IsFailure(status) ==
  /\ status.status \notin {"running", "none"}
  /\ ~(status.status = "completed" /\ status.exit_code = 0)

\* the command line the runner logs for step k (counted from 1)
LoggedCommandOf(k) == CommandLine(DataRoot, toForgeArgs(runNodes[k]))

\* the chunks a status adds to the log after the command line
OutputChunksOf(status) ==
  (IF TrimText(status.stdout) = EmptyText THEN <<>> ELSE <<TrimText(status.stdout)>>)
    \o (IF TrimText(status.stderr) = EmptyText THEN <<>> ELSE <<TrimText(status.stderr)>>)

\* the log ends with the command line of step k and the output of a status
LogEndsWithOutputOf(k, status) ==
  LET expected == <<LoggedCommandOf(k)>> \o OutputChunksOf(status)
  IN  /\ Len(log_chunks) >= Len(expected)
      /\ SubSeq(log_chunks, Len(log_chunks) - Len(expected) + 1, Len(log_chunks))
           = expected

\* C11: within one run at most one task is in flight, the steps are
\* submitted in the order of the node list and each at most once, and a step
\* is submitted only after the step before it was polled to a terminal
\* status and its output was appended to the log.
StepsRunOneAtATimeInOrder ==
  LET submits == SelectSeq(callTrace, LAMBDA c : c.call = "submit")
  IN  /\ Len(submits) = Len(tasks)
      /\ \A k \in DOMAIN submits :
           /\ submits[k].step = k - 1
           /\ tasks[k].node_id = runNodes[k].id
      /\ \A k \in 1..(Len(tasks) - 1) : tasks[k].status \in {"completed", "failed"}
      /\ \A j \in CallsOf("submit") :
           callTrace[j].step > 0 =>
             \E i \in 1..(j - 1) :
               /\ callTrace[i].call = "poll"
               /\ callTrace[i].step = callTrace[j].step - 1
               /\ ~callTrace[i].running
      /\ \A k \in 1..(Len(tasks) - 1) :
           \E c \in DOMAIN log_chunks : log_chunks[c] = LoggedCommandOf(k)
      /\ (runPc = "submit" /\ tasks # <<>>) => LogEndsWithOutputOf(runIndex, task_status)

\* the second step is being polled after the first one was seen running and
\* left a command line, stdout and stderr in the log
WitnessSecondStepAfterFirstLogged ==
  /\ runPc = "poll"
  /\ Len(tasks) = 2
  /\ Len(log_chunks) = 3
  /\ \E i \in CallsOf("poll") : callTrace[i].step = 0 /\ callTrace[i].running

\* C12: when a step ends with a status other than "completed" or an exit
\* code other than 0, the run fails with the step-failed error after that
\* step's output was appended to the log, and no later step is ever
\* submitted or polled.
FailureAbortsTheRun ==
  /\ \A k \in DOMAIN tasks :
       IsFailure(tasks[k]) => k = Len(tasks) /\ runPc = "failed"
  /\ runPc = "failed" =>
       /\ IsFailure(task_status)
       /\ runOutcome.kind = "threw"
       /\ Head(runOutcome.message) = "Command failed: "
       /\ Len(tasks) = runIndex + 1
       /\ LogEndsWithOutputOf(runIndex + 1, task_status)
       /\ \A i \in DOMAIN callTrace : callTrace[i].step <= runIndex
       /\ callTrace[Len(callTrace)].call = "on_progress"
       /\ callTrace[Len(callTrace) - 1] = PollCall(runIndex, task_status)

\* the first of two steps was seen running and then failed with exit code 1
\* under the status "completed"
WitnessFirstOfTwoStepsFailed ==
  /\ runPc = "failed"
  /\ Len(runNodes) = 2
  /\ Len(tasks) = 1
  /\ tasks[1].status = "completed"
  /\ tasks[1].exit_code = 1
  /\ Cardinality(CallsOf("poll")) >= 2

\* piece occurs in row as a run of consecutive tokens
IsInfix(piece, row) ==
  \E start \in 0..(Len(row) - Len(piece)) :
    SubSeq(row, start + 1, start + Len(piece)) = piece

\* the rows of every chunk of the log
LogRows == UNION {SeqToSet(log_chunks[c]) : c \in DOMAIN log_chunks}

\* the rows a caller is left with: what the promise settled with and, when
\* the hook made the call, the console text it shows
CallerRows ==
  SeqToSet(runOutcome.console_output) \cup {runOutcome.message}
    \cup SeqToSet(consoleOutput)

\* C13: when a run fails with the step-failed error, the console log and the
\* history path accumulated up to the failure are available to the caller.
FailureLeavesLogAndHistoryToCaller ==
  runOutcome.kind = "threw" =>
    /\ \A row \in LogRows : \E held \in CallerRows : IsInfix(row, held)
    /\ ~history_path.null =>
         \/ runOutcome.history_path = history_path
         \/ historyPath = history_path.value

\* C14: the step-failed error carries the invoked command text and the
\* captured stderr of the failing step.
StepFailedCarriesCommandAndStderr ==
  runOutcome.kind = "threw" =>
    /\ IsInfix(CommandText(toForgeArgs(runNodes[runIndex + 1])), runOutcome.message)
    /\ \A row \in SeqToSet(TrimText(task_status.stderr)) :
         IsInfix(row, runOutcome.message)

\* C15: runPipelineInBackground with zero nodes returns console_output ""
\* and history_path null without a submit call, a poll call or a call of
\* on_progress.
EmptyRunReturnsAtOnce ==
  (runPc # "idle" /\ runNodes = <<>>) =>
    /\ runPc = "completed"
    /\ runOutcome.kind = "returned"
    /\ runOutcome.console_output = EmptyText
    /\ runOutcome.history_path.null
    /\ callTrace = <<>>
    /\ tasks = <<>>
    /\ delivered = <<>>
    /\ progress = DEFAULT_PIPELINE_PROGRESS_SNAPSHOT

\* runPipelineInBackground was called with the empty node list
WitnessEmptyRun ==
  /\ hookState = "bypassed"
  /\ nodes = <<>>
  /\ runNodes = <<>>
  /\ runPc = "completed"

\* positions of callTrace where on_progress got the "Pipeline complete" label
FinalCalls ==
  {i \in CallsOf("on_progress") : callTrace[i].label = <<"Pipeline complete">>}

\* C16: when all steps of a non-empty run succeed, exactly one final snapshot
\* (not running, overall percent 100, remaining 0, label "Pipeline complete",
\* step percent 100) is delivered and it is the last one delivered; when the
\* run fails no such snapshot is delivered.
FinalSnapshotOnlyAfterSuccess ==
  /\ (runPc = "completed" /\ runNodes # <<>>) =>
       /\ \A k \in DOMAIN tasks : tasks[k].status = "completed" /\ tasks[k].exit_code = 0
       /\ FinalCalls = {Len(callTrace)}
       /\ LET last == delivered[Len(delivered)]
          IN  /\ ~last.is_running
              /\ last.overall_percent = Whole(100)
              /\ last.pipeline_remaining_seconds = 0
              /\ last.current_step_label = <<"Pipeline complete">>
              /\ last.current_step_percent = 100
  /\ runPc # "completed" =>
       /\ FinalCalls = {}
       /\ \A d \in DOMAIN delivered :
            delivered[d].current_step_label # <<"Pipeline complete">>

\* a run of two steps succeeded after a poll that found a task running
WitnessTwoStepsSucceeded ==
  /\ runPc = "completed"
  /\ Len(runNodes) = 2
  /\ \E i \in CallsOf("poll") : callTrace[i].running
  /\ Len(delivered) = 2

\* a history-path marker line: a key=value line with the key history_path,
\* or a line that ends with the history-file suffix
IsMarkerLine(row) ==
  \/ Len(row) >= 2 /\ row[1] = "history_path" /\ row[2] = "="
  \/ row # <<>> /\ row[Len(row)] = "history.json"

\* the value a marker line states: what follows "history_path=", or the line
MarkerValueOf(row) ==
  IF Len(row) >= 2 /\ row[1] = "history_path" /\ row[2] = "="
    THEN TrimRow(SubSeq(row, 3, Len(row)))
    ELSE TrimRow(row)

\* the steps whose stdout held a marker line
StepsWithMarker ==
  {k \in DOMAIN tasks : \E i \in DOMAIN tasks[k].stdout : IsMarkerLine(tasks[k].stdout[i])}

\* the value of the first marker line of a stdout that has one
MarkerValueIn(stdout) ==
  LET lines == {i \in DOMAIN stdout : IsMarkerLine(stdout[i])}
  IN  MarkerValueOf(stdout[CHOOSE i \in lines : \A j \in lines : i <= j])

\* C17: the history_path a successful run returns is the marker value in
\* the stdout of the latest step whose stdout held a marker; a later step
\* without a marker does not clear it; it is null when no step had a marker.
HistoryPathIsLastMarkerValue ==
  (runOutcome.kind = "returned" /\ runNodes # <<>>) =>
    IF StepsWithMarker = {}
      THEN runOutcome.history_path.null
      ELSE LET latest == CHOOSE k \in StepsWithMarker : \A j \in StepsWithMarker : j <= k
           IN  /\ ~runOutcome.history_path.null
               /\ runOutcome.history_path.value = MarkerValueIn(tasks[latest].stdout)

\* the snapshot emit_progress delivered for the latest poll
PolledSnapshot == delivered[1]

\* C18: each submitted task is polled until a poll returns a status other
\* than "running"; every poll delivers exactly one snapshot to on_progress
\* before the next poll, carrying the step's index; the snapshot of a
\* non-running poll has step percent 100; a task is not polled again after
\* a non-running status.
EveryPollDeliversOneSnapshot ==
  /\ \A i \in CallsOf("poll") :
       /\ i < Len(callTrace)
       /\ callTrace[i + 1].call = "on_progress"
       /\ callTrace[i + 1].step = callTrace[i].step
       /\ callTrace[i + 1].running = callTrace[i].running
       /\ callTrace[i + 1].label =
            <<ToString(callTrace[i].step + 1), "/", ToString(Len(runNodes)), ": ",
              runNodes[callTrace[i].step + 1].title>>
  /\ \A i \in CallsOf("on_progress") \ FinalCalls :
       i > 1 /\ callTrace[i - 1].call = "poll"
  /\ \A i \in CallsOf("poll") : \A j \in CallsOf("poll") :
       (i < j /\ callTrace[i].step = callTrace[j].step) => callTrace[i].running
  /\ \A k \in DOMAIN tasks :
       (k < Len(tasks) \/ runPc \in {"completed", "failed"}) =>
         \E i \in CallsOf("poll") : callTrace[i].step = k - 1 /\ ~callTrace[i].running
  /\ (delivered # <<>> /\ task_status.status # "running") =>
       PolledSnapshot.current_step_percent = 100
  /\ delivered # <<>> =>
       /\ PolledSnapshot.is_running = (task_status.status = "running")
       /\ PolledSnapshot.current_step_label = callTrace[Len(callTrace) - Len(delivered) + 1].label

\* the second step's task was polled three times: running, running, ended
WitnessSecondStepPolledToItsEnd ==
  /\ Len(tasks) = 2
  /\ task_status.status = "failed"
  /\ Cardinality({i \in CallsOf("poll") : callTrace[i].step = 1}) = 3
  /\ Cardinality({i \in CallsOf("on_progress") : callTrace[i].step = 1}) = 3

\* the step percent a status stands for: its own progress percent while it
\* runs, 100 afterwards
StepPercentOf(status) ==
  IF status.status = "running" THEN status.progress_percent ELSE 100

\* C19: every snapshot delivered while polling step i of n has
\* overall_percent = clamp(((i + p / 100) / n) * 100, 0, 100), with p the
\* status's progress percent if it runs and 100 otherwise; so
\* overall_percent lies in [0, 100] whatever the reported percent is.
OverallPercentIsClamped ==
  delivered # <<>> =>
    LET n       == Len(runNodes)
        scaled  == 100 * LastPolledStep + StepPercentOf(task_status)
        overall == PolledSnapshot.overall_percent
    IN  /\ scaled < 0 => overall.num = 0
        /\ scaled > 100 * n => overall.num = 100 * overall.den
        /\ (0 <= scaled /\ scaled <= 100 * n) => overall.num * n = scaled * overall.den
        /\ overall.den > 0
        /\ 0 <= overall.num
        /\ overall.num <= 100 * overall.den

\* a reported percent of 150 while the last of two steps runs: the overall
\* percent would be 125 and is delivered as 100
WitnessPercentOutOfRange ==
  /\ delivered # <<>>
  /\ task_status.status = "running"
  /\ Len(runNodes) = 2
  /\ LastPolledStep = 1
  /\ task_status.progress_percent = 150
  /\ PolledSnapshot.overall_percent = Whole(100)

\* C20: every snapshot delivered while polling step i has
\* pipeline_remaining_seconds = the polled task's remaining_seconds plus the
\* sum of the current estimates of the steps after step i (nothing is added
\* for the last step).
RemainingIsTaskPlusLaterEstimates ==
  delivered # <<>> =>
    LET later == {k \in DOMAIN estimated_step_seconds : k > LastPolledStep + 1}
        RECURSIVE SumOver(_)
        SumOver(S) ==
          IF S = {} THEN 0
          ELSE LET k == CHOOSE x \in S : TRUE
               IN  estimated_step_seconds[k] + SumOver(S \ {k})
    IN  /\ PolledSnapshot.pipeline_remaining_seconds =
             task_status.remaining_seconds + SumOver(later)
        /\ LastPolledStep + 1 = Len(runNodes) =>
             PolledSnapshot.pipeline_remaining_seconds = task_status.remaining_seconds

\* polling the first of two steps, whose own estimate was raised to 500 at
\* its submission: 7 seconds of the task plus 30 for the filter step
WitnessRemainingWithLaterStep ==
  /\ delivered # <<>>
  /\ Len(runNodes) = 2
  /\ LastPolledStep = 0
  /\ estimated_step_seconds = <<500, 30>>
  /\ task_status.remaining_seconds = 7
  /\ PolledSnapshot.pipeline_remaining_seconds = 37

(***************************************************************************)
(* Claims about the estimates of a run (checked under SpecRun).            *)
(***************************************************************************)
\* the static default of every step of the run
StaticEstimates ==
  [k \in DOMAIN runNodes |-> estimateNodeDurationSeconds(runNodes[k].type)]

\* the steps whose submission returned more than the static default
StepsWithRaisedEstimate ==
  {k \in DOMAIN tasks : tasks[k].estimated_total_seconds > StaticEstimates[k]}

\* what emit_progress hands over for the latest poll when it is given a
\* list of estimates
SnapshotUnder(estimates) ==
  emit_progress([node_title             |-> runNodes[LastPolledStep + 1].title,
                 node_index             |-> LastPolledStep,
                 node_count             |-> Len(runNodes),
                 estimated_step_seconds |-> estimates],
                task_status)

\* C21: once a step is submitted its estimate is the larger of the static
\* default of its node type and the estimate the submission returned, it
\* stays so for the rest of the run, and the pipeline_remaining_seconds
\* computed later in the run reflect it: they differ from what the static
\* defaults alone would give.
DynamicEstimateReflectedInEta ==
  /\ \A k \in DOMAIN tasks :
       /\ estimated_step_seconds[k] >= StaticEstimates[k]
       /\ estimated_step_seconds[k] >= tasks[k].estimated_total_seconds
       /\ estimated_step_seconds[k] \in
            {StaticEstimates[k], tasks[k].estimated_total_seconds}
  /\ (delivered # <<>> /\ StepsWithRaisedEstimate # {}) =>
       PolledSnapshot.pipeline_remaining_seconds
         # SnapshotUnder(StaticEstimates).pipeline_remaining_seconds

\* C22: in a run of two steps whose first submission returned more than the
\* static default of the first step, the first snapshot of the first step
\* has a pipeline_remaining_seconds of at least that returned estimate plus
\* the estimate of the second step.
FirstEtaCoversDynamicEstimate ==
  ( /\ Len(runNodes) = 2
    /\ delivered # <<>>
    /\ Cardinality(CallsOf("poll")) = 1
    /\ 1 \in StepsWithRaisedEstimate ) =>
      PolledSnapshot.pipeline_remaining_seconds >=
        tasks[1].estimated_total_seconds + estimated_step_seconds[2]

(***************************************************************************)
(* Runner specification with a failing task interface: the promise of      *)
(* startForgeCommand or of getForgeCommandStatus may reject.               *)
(***************************************************************************)
\* the errors the task interface rejects with
TransportErrors == {<<"task", " ", "channel", " ", "closed">>}

\* the entry of callTrace for a call whose promise rejected
RejectedCall(step, error) ==
  [call |-> "rejected", step |-> step, running |-> FALSE, label |-> error]

\* mutant: the rejection is rethrown as a failed command
RejectionAsCommandFailed(error) == Threw(<<"Command failed: ">> \o error)

\* pipeline_run.ts:54-76, 109-120  no try/catch around either await: the
\* rejection leaves runPipelineInBackground as it came
RejectionOutcome(error) == Threw(error)

\* pipeline_run.ts:57, 113  the awaited call rejects; the hook, when it made
\* the call, catches the error (use_pipeline_graph_state.ts:217-225)
CallRejected(call, error) ==
  /\ runPc' = "failed"
  /\ runOutcome' = RejectionOutcome(error)
  /\ callTrace' = callTrace \o <<call, RejectedCall(runIndex, error)>>
  /\ delivered' = <<>>
  /\ IF hookState = "running"
       THEN /\ hookState' = "failed"
            /\ progress' = [progress EXCEPT !.is_running = FALSE]
            /\ consoleOutput' = FailedConsole(consoleOutput, error)
       ELSE UNCHANGED <<hookState, progress, consoleOutput>>
  /\ UNCHANGED <<graphVars, sanitizeVars, plan, runNodes, runIndex, tasks,
                 pollCount, estimated_step_seconds, history_path, log_chunks,
                 task_status, historyPath>>

\* pipeline_run.ts:57  await startForgeCommand(...) rejects
SubmitRejected ==
  /\ runPc = "submit"
  /\ \E error \in TransportErrors : CallRejected(SubmitCall(runIndex), error)

\* pipeline_run.ts:113  await getForgeCommandStatus(...) rejects
PollRejected ==
  /\ runPc = "poll"
  /\ \E error \in TransportErrors :
       CallRejected(PollCall(runIndex, NoStatus), error)

NextRunFaulty == NextRun \/ SubmitRejected \/ PollRejected

SpecRunFaulty == InitRun /\ [][NextRunFaulty]_vars

\* C23: when a submit call or a poll call fails, runPipelineInBackground
\* fails with that very error, not with a "Command failed" error; the failed
\* call is the last call of the run (no later submit, poll or on_progress),
\* and no "Pipeline complete" snapshot is delivered.
CallFailurePropagatesUnchanged ==
  \A i \in CallsOf("rejected") :
    /\ i = Len(callTrace)
    /\ callTrace[i - 1].call \in {"submit", "poll"}
    /\ runPc = "failed"
    /\ runOutcome = Threw(callTrace[i].label)
    /\ \A args \in {toForgeArgs(runNodes[k]) : k \in DOMAIN runNodes} :
         runOutcome.message # CommandFailedMessage(args)
    /\ runOutcome.message[1] # "Command failed: "
    /\ FinalCalls = {}
    /\ delivered = <<>>

\* the poll of the first of two steps fails after one running poll
WitnessPollFailedOnFirstOfTwo ==
  /\ Len(runNodes) = 2
  /\ CallsOf("rejected") # {}
  /\ callTrace[Len(callTrace) - 1].call = "poll"
  /\ callTrace[Len(callTrace)].step = 0
  /\ Cardinality(CallsOf("poll")) = 2
  /\ Len(tasks) = 1
  /\ runOutcome.kind = "threw"

(***************************************************************************)
(* Runner specification for termination: a task may report "running" any   *)
(* number of times.  callTrace and pollCount record the first              *)
(* MaxRunningPolls running polls of a run; the polls after them are taken  *)
(* without being recorded.                                                 *)
(***************************************************************************)
\* pipeline_run.ts:112-118  one more running reply after the recorded ones:
\* the snapshot is delivered and wait_for_task sleeps and polls again
PollStillRunning ==
  /\ runPc = "poll"
  /\ pollCount = MaxRunningPolls
  /\ \E reply \in RunningReplies :
       LET node     == runNodes[runIndex + 1]
           options  == [node_title             |-> node.title,
                        node_index             |-> runIndex,
                        node_count             |-> Len(runNodes),
                        estimated_step_seconds |-> estimated_step_seconds]
           snapshot == emit_progress(options, reply)
       IN  /\ KeepsPolling(reply)
           /\ task_status' = reply
           /\ tasks' = [tasks EXCEPT ![Len(tasks)] =
                          [@ EXCEPT !.status = reply.status,
                                    !.exit_code = reply.exit_code,
                                    !.stdout = reply.stdout]]
           /\ delivered' = <<snapshot>>
           /\ progress' = snapshot
  /\ UNCHANGED <<graphVars, sanitizeVars, plan, hookState, runPc, runNodes,
                 runIndex, pollCount, estimated_step_seconds, history_path,
                 log_chunks, callTrace, runOutcome, consoleOutput, historyPath>>

\* the replies of a task that has ended, with any status and exit code
EndedReplies ==
  {StatusWith(s, 0, 0, EmptyText, EmptyText) : s \in TerminalStatuses}

\* a poll that finds the task ended
PollRunEnded == PollStepFrom(EndedReplies)

SubmitLiveStep == SubmitStepFrom(PlainStarts)

PollLiveStep == PollStepFrom(RunningReplies \cup EndedReplies)

NextRunLive ==
  RunPipeline \/ runPipelineInBackground \/ SubmitLiveStep \/ PollLiveStep
    \/ PollStillRunning

\* no submit call hangs, and every submitted task is in the end found with a
\* status other than "running" by a poll that does not hang
SpecRunLive ==
  /\ InitRun
  /\ [][NextRunLive]_vars
  /\ WF_vars(SubmitLiveStep)
  /\ WF_vars(PollRunEnded)

\* the run is between its first submit and its end
RunActive == runPc \in {"submit", "poll"}

\* the run returned a result or failed
RunEnded == runPc \in {"completed", "failed"} /\ runOutcome.kind \in {"returned", "threw"}

\* C24: when every submitted task in the end reports a status other than
\* "running" and no call hangs, every run ends, returning a result or
\* failing; the runner has no timeout of its own: it leaves the polling of
\* a task only on a status other than "running", and while it polls another
\* "running" reply can always be taken.
RunEndsUnlessTaskRunsForever ==
  /\ RunActive ~> RunEnded
  /\ [][(runPc = "poll" /\ runPc' # "poll") => task_status'.status # "running"]_vars
  /\ [](runPc = "poll" => ENABLED (PollStepFrom(RunningReplies) \/ PollStillRunning))

\* a run of two steps ended although its tasks reported "running" more often
\* than the recorded polls
WitnessEndedAfterLongPolling ==
  /\ Len(runNodes) = 2
  /\ RunEnded
  /\ runOutcome.kind = "returned"
  /\ pollCount = MaxRunningPolls
  /\ Cardinality({i \in CallsOf("poll") : callTrace[i].running}) = MaxRunningPolls

(***************************************************************************)
(* Claims about the order of the plan (checked under SpecPlan).            *)
(***************************************************************************)
\* the position of a node identifier in the input node list
InputPosition(id) == PositionIn([i \in DOMAIN nodes |-> nodes[i].id], id)

\* the reachable nodes not among the given ones whose sources, over the
\* sanitized edges between reachable nodes, are all among the given ones
ReadyAfter(emitted) ==
  LET g == GraphFacts
  IN  {n \in g.reachable \ emitted :
         \A p \in g.reachablePairs : p[2] = n => p[1] \in emitted}

\* the orders of the reachable nodes in which every sanitized edge runs
\* forward
TopologicalOrders ==
  LET g == GraphFacts
      n == Cardinality(g.reachable)
  IN  {t \in [1..n -> g.reachable] :
         /\ \A i, j \in 1..n : i # j => t[i] # t[j]
         /\ \A p \in g.reachablePairs : PositionIn(t, p[1]) < PositionIn(t, p[2])}

\* left comes before right, or equals it, when the two orders are compared
\* position by position on the input positions of their nodes
LexicographicallyAtMost(left, right) ==
  \/ left = right
  \/ \E k \in DOMAIN left :
       /\ \A j \in 1..(k - 1) : left[j] = right[j]
       /\ InputPosition(left[k]) < InputPosition(right[k])

\* C25: at every step of the ordering the node appended next is the ready
\* node (all its sources already emitted) with the smallest position in the
\* input node list, nodes that became ready during the loop included;
\* equivalently ordered_nodes is the lexicographically smallest topological
\* order by input position.
NextNodeIsSmallestReady ==
  plan.error = "none" =>
    LET ids == OrderedIds
    IN  /\ \A i \in DOMAIN ids :
             LET ready == ReadyAfter({ids[j] : j \in 1..(i - 1)})
             IN  /\ ids[i] \in ready
                 /\ \A n \in ready : InputPosition(ids[i]) <= InputPosition(n)
        /\ ids \in TopologicalOrders
        /\ \A t \in TopologicalOrders : LexicographicallyAtMost(ids, t)

\* the start "->a" releases "a->" and "b"; "a->" goes first and releases
\* "a", which then goes before the waiting "b"
WitnessLateReadyNodeGoesFirst ==
  /\ plan.error = "none"
  /\ OrderedIds = <<"->a", "a->", "a", "b">>
  /\ GraphFacts.reachablePairs = {<<"->a", "b">>, <<"->a", "a->">>, <<"a->", "a">>}
  /\ Cardinality(TopologicalOrders) = 3

\* the reachable nodes that no sanitized edge between reachable nodes enters
ReachableSources ==
  LET g == GraphFacts
  IN  {n \in g.reachable : \A p \in g.reachablePairs : p[2] # n}

\* C27: whenever buildPipelineExecutionPlan succeeds, the start node is the
\* first element of ordered_nodes and is the only reachable node of
\* indegree 0 in the reachable subgraph, so the initial ready set has
\* exactly one element.
StartNodeIsTheOnlySource ==
  plan.error = "none" =>
    /\ plan.ordered_nodes # <<>>
    /\ plan.ordered_nodes[1].id = startNodeId
    /\ ReachableSources = {startNodeId}
    /\ Cardinality(ReadyAfter({})) = 1

\* a successful plan whose start node comes last in the node list, has two
\* reachable successors and is entered by an edge from an unreachable node
WitnessStartWithUnreachableFeeder ==
  /\ plan.error = "none"
  /\ startNodeId = nodes[Len(nodes)].id
  /\ Len(plan.ordered_nodes) = 3
  /\ \E p \in GraphFacts.sanitized :
       p[2] = startNodeId /\ p[1] \notin GraphFacts.reachable

(***************************************************************************)
(* Claims about the life of one invocation (checked under SpecRunFaulty).  *)
(***************************************************************************)

RunStates == {"idle", "submit", "poll", "completed", "failed"}

\* C26: an invocation of runPipelineInBackground on a non-empty node list
\* goes from idle to running (submitting or polling) and from running to
\* exactly one of completed (a result returned) and failed (an error
\* thrown); there is no other outcome, such as cancelled; once completed or
\* failed it makes no further submit call, poll call or on_progress call
\* and keeps its state and outcome.
RunLifecycleIsAbsorbing ==
  /\ [](/\ runPc \in RunStates
        /\ runOutcome.kind \in {"pending", "returned", "threw"}
        /\ (runOutcome.kind = "returned") = (runPc = "completed")
        /\ (runOutcome.kind = "threw") = (runPc = "failed")
        /\ (runOutcome.kind = "pending") = (runPc \in {"idle", "submit", "poll"}))
  /\ [][/\ (runPc = "idle" /\ runPc' # "idle" /\ runNodes' # <<>>) => runPc' = "submit"
        /\ runPc \in {"submit", "poll"} =>
             /\ runPc' \in {"submit", "poll", "completed", "failed"}
             /\ runNodes' = runNodes
        /\ runPc \in {"completed", "failed"} =>
             /\ runPc' = runPc
             /\ runOutcome' = runOutcome
             /\ callTrace' = callTrace
             /\ tasks' = tasks
             /\ progress' = progress]_vars

\* the second step of a run of two fails after the first step completed
WitnessSecondOfTwoStepsFailed ==
  /\ Len(runNodes) = 2
  /\ runPc = "failed"
  /\ Len(tasks) = 2
  /\ tasks[1].status = "completed" /\ tasks[1].exit_code = 0
  /\ runOutcome.kind = "threw"
  /\ callTrace[Len(callTrace)].call = "on_progress"

(***************************************************************************)
(* Claims about the hook's progress state (checked under SpecRun).         *)
(***************************************************************************)
\* the run the hook started has neither returned nor failed
HookRunActive == hookState = "running" /\ runPc \in {"submit", "poll"}

\* C28: between the start of a multi-step run by the hook's run_pipeline and
\* its return or failure, progress.is_running is never false, so that the
\* Run button, disabled while progress.is_running, lets no second run start
\* while steps remain to be submitted or polled.
ProgressRunningWhileRunActive ==
  (HookRunActive /\ Len(runNodes) >= 2) => progress.is_running

(***************************************************************************)
(* Runner specification for the course of the overall percent: tasks that  *)
(* report a progress inside [0, 100], rising or falling, and one above it. *)
(***************************************************************************)
ProgressReplies ==
  {StatusWith(RunningStatus, p, 5, EmptyText, EmptyText) : p \in {20, 60, 150}}
    \cup {StatusWith(CompletedStatus, p, 0, EmptyText, EmptyText) : p \in {40, 100}}
    \cup {StatusWith([status |-> "failed", exit_code |-> 1], 60, 0, EmptyText, EmptyText)}

SubmitProgressStep == SubmitStepFrom(PlainStarts)

PollProgressStep == PollStepFrom(ProgressReplies)

NextRunProgress ==
  RunPipeline \/ runPipelineInBackground \/ SubmitProgressStep \/ PollProgressStep

SpecRunProgress == InitRun /\ [][NextRunProgress]_vars

\* the reported percent lies in [0, 100]
InRange(status) == 0 <= status.progress_percent /\ status.progress_percent <= 100

\* C29: within one run, when the progress_percent a task reports stays in
\* [0, 100] and does not decrease from one poll of the task to the next, the
\* overall_percent delivered to on_progress does not decrease from one
\* snapshot to the next, from the first snapshot to the final "Pipeline
\* complete" snapshot.  (progress holds the snapshot delivered last, and
\* task_status is "running" exactly when the poll before was of the same
\* task.)
OverallPercentNeverDecreases ==
  [][(runPc = "poll" /\ delivered' # <<>>) =>
       LET before   == progress.overall_percent
           sameTask == task_status.status = "running"
       IN  ( /\ InRange(task_status')
             /\ sameTask =>
                  /\ InRange(task_status)
                  /\ task_status.progress_percent <= task_status'.progress_percent ) =>
             /\ ~Less(delivered'[1].overall_percent, before)
             /\ \A i \in 1..(Len(delivered') - 1) :
                  ~Less(delivered'[i + 1].overall_percent,
                        delivered'[i].overall_percent)]_vars

\* the second of two steps reports 60 after an earlier running poll of the
\* run: the overall percent has risen to 80
WitnessPercentRisesAcrossSteps ==
  /\ delivered # <<>>
  /\ Len(runNodes) = 2
  /\ LastPolledStep = 1
  /\ task_status.status = "running"
  /\ task_status.progress_percent = 60
  /\ pollCount = 2
  /\ PolledSnapshot.overall_percent = Whole(80)

(***************************************************************************)
(* Hook specification: the handlers add_node, remove_node, clear_canvas    *)
(* and set_start_node_id of usePipelineGraphState and its node-change      *)
(* effect, from any initial session state.  The effect runs after a render *)
(* whose nodes or startNodeId differ from those of the render before; it   *)
(* runs before the next event is handled, so a handler sees the state the  *)
(* effect left.                                                            *)
(***************************************************************************)
InitHook ==
  /\ \E k \in 0..Len(NodeIdOrder) : nodes = NodePrefix(NodeIdOrder, k)
  /\ edges = sanitizePipelineGraph(nodes, ChainEdges(nodes))
  /\ startNodeId \in NodeIdUniverse \cup {""}
  /\ plan = NoPlan
  /\ EffectNotRun
  /\ SanitizeIdle
  /\ RunIdle

\* use_pipeline_graph_state.ts:86-98  the effect is due: it has not run, or
\* a dependency changed since its run
EffectDue ==
  \/ ~effectDeps.ran
  \/ effectDeps.nodes # nodes
  \/ effectDeps.startNodeId # startNodeId

\* use_pipeline_graph_state.ts:100-123  addNode: the new node carries a fresh
\* id (pipeline.ts:17)
addNode ==
  /\ ~EffectDue
  /\ \E id \in NodeIdUniverse \ NodeIdSet(nodes) :
       /\ nodes' = Append(nodes, NodeOf(id))
       /\ startNodeId' = IF startNodeId = "" THEN id ELSE startNodeId
  /\ UNCHANGED <<edges, effectDeps, sanitizeVars, plan, runVars>>

\* use_pipeline_graph_state.ts:135-149  removeNode
removeNode ==
  /\ ~EffectDue
  /\ \E nodeId \in NodeIdUniverse :
       /\ nodes' = SelectSeq(nodes, LAMBDA node : node.id # nodeId)
       /\ edges' = SelectSeq(edges, LAMBDA edge :
                     edge.source_node_id # nodeId /\ edge.target_node_id # nodeId)
       /\ startNodeId' = IF startNodeId = nodeId THEN "" ELSE startNodeId
  /\ UNCHANGED <<effectDeps, sanitizeVars, plan, runVars>>

\* use_pipeline_graph_state.ts:177-182  clearCanvas
clearCanvas ==
  /\ ~EffectDue
  /\ nodes' = <<>>
  /\ edges' = <<>>
  /\ startNodeId' = ""
  /\ UNCHANGED <<effectDeps, sanitizeVars, plan, runVars>>

\* use_pipeline_graph_state.ts:71, 254  set_start_node_id: setStartNodeId with
\* the id of a node, present or gone, or with null
setStartNodeId ==
  /\ ~EffectDue
  /\ \E value \in NodeIdUniverse \cup {""} : startNodeId' = value
  /\ UNCHANGED <<nodes, edges, effectDeps, sanitizeVars, plan, runVars>>

\* use_pipeline_graph_state.ts:86-98  one run of the node-change effect
NodeChangeEffect ==
  /\ EffectDue
  /\ edges' = sanitizePipelineGraph(nodes, edges)
  /\ startNodeId' = EffectStartNodeId(nodes, startNodeId)
  /\ effectDeps' = [ran |-> TRUE, nodes |-> nodes, startNodeId |-> startNodeId]
  /\ UNCHANGED <<nodes, sanitizeVars, plan, runVars>>

NextHook == addNode \/ removeNode \/ clearCanvas \/ setStartNodeId \/ NodeChangeEffect

SpecHook == InitHook /\ [][NextHook]_vars

\* C30: once the node-change effect has run to a fixed point (it is not
\* due), start_node_id is null exactly when the node list is empty and
\* otherwise names a node of the node list, whatever handlers ran before;
\* in particular it never names a removed node.
StartNodeIdSettlesOnPresentNode ==
  ~EffectDue =>
    /\ (startNodeId = "") = (nodes = <<>>)
    /\ startNodeId # "" => startNodeId \in NodeIdSet(nodes)

\* the effect has settled on a list of two nodes that no longer holds the
\* first node "a" of the session, with the first node left as the start
WitnessStartSettledAfterRemoval ==
  /\ ~EffectDue
  /\ Len(nodes) = 2
  /\ "a" \notin NodeIdSet(nodes)
  /\ startNodeId = nodes[1].id
  /\ effectDeps.startNodeId = startNodeId

====
